---- MODULE Spec2Model ----
(***************************************************************************)
(* Crawl orchestration of crawling-positioning-booking-bus.                *)
(*                                                                         *)
(* Three front-ends keep a global crawling_state dict that is read and     *)
(* written, without any lock, by the Flask request handlers and by the     *)
(* worker threads they launch:                                             *)
(*   "unified"   web_crawler_unified.py + api_v2_endpoints.py              *)
(*               (redbus_worker, one sequential worker per accepted start) *)
(*   "pool"      web_crawler_redbus.py (crawl_worker + ThreadPoolExecutor  *)
(*               running crawl_single_task)                                *)
(*   "traveloka" web_crawler_ui.py (crawl_worker, sequential)              *)
(* A behaviour is one server process of one front-end (app is fixed by     *)
(* Init).  A request handler is one atomic action.  A sequential worker    *)
(* thread is a sequence of steps, one per blocking call and one per        *)
(* statement that updates a counter other threads read.  The threads of    *)
(* the pool, which the code runs side by side on purpose, are modelled to  *)
(* the single read and write of x += 1.                                    *)
(*                                                                         *)
(* Spec explores the requests of a client that sends a start request only  *)
(* when no thread of an earlier run is left (a start request sent while    *)
(* is_running holds is explored everywhere: it is rejected).  SpecOverlap  *)
(* drops that discipline for the unified front-end: any request at any     *)
(* time.  SpecFive is one pool run of ScenarioTasks tasks, in which the    *)
(* scraper raises on one task and returns data on the others.              *)
(***************************************************************************)
EXTENDS Integers, Sequences, FiniteSets, TLC

\* Bounds of the model.
MaxRoutes == 2         \* routes added to a registry
MaxNames == 2          \* route names of one request
MaxDates == 2          \* dates of one request
MaxTotal == 50         \* tasks of the run whose progress is followed
MaxRows == 4           \* rows of the bus_data table
MaxRecords == 2        \* records of one crawl attempt
MaxDays == 2           \* calendar days of a behaviour
MaxSessions == 2       \* rows of the crawl_sessions table
MaxTasks == 2          \* tasks generated by one start request
MaxRuns == 2           \* start requests accepted in one behaviour
MaxWorkers == 2        \* max_workers of a pool run
ScenarioTasks == 5     \* tasks of a run of SpecFive
ScenarioRaise == 3     \* the task of a run of SpecFive on which the scraper raises

Apps == {"unified", "pool", "traveloka"}

VARIABLES
    app,              \* which front-end this server process is
    is_running,       \* crawling_state['is_running']
    progress,         \* crawling_state['progress']
    total_tasks,      \* crawling_state['total_tasks']
    completed_tasks,  \* crawling_state['completed_tasks']
    current_tasks,    \* crawling_state['current_tasks']: the entries of the list
    logs,             \* crawling_state['logs']: the kinds of entries in the buffer
    stats,            \* crawling_state['stats']
    w,                \* worker threads, one per accepted start request, in start order
    pt,               \* pool: the tasks of the latest run, as crawl_single_task calls
    executor,         \* pool: the global ThreadPoolExecutor: "none", "open" or "shut"
    script,           \* 0, or the task on which the scraper raises (SpecFive)
    snap,             \* the response a status request is building
    reg,              \* the route registry (RouteManager)
    gen,              \* the last call of a task generator and what it returned
    store,            \* the database of bus data (BusDatabase)
    resp              \* the last request and the response it got

vars == <<app, is_running, progress, total_tasks, completed_tasks,
          current_tasks, logs, stats, w, pt, executor, script, snap, resp,
          reg, gen, store>>

\* The variables of the registry, the task generators and the database.
aux == <<reg, gen, store>>

\* The variables of a crawler front-end.
crawler == <<app, is_running, progress, total_tasks, completed_tasks,
             current_tasks, logs, stats, w, pt, executor, script, snap, resp>>

state == <<is_running, progress, total_tasks, completed_tasks,
           current_tasks, logs, stats>>

----------------------------------------------------------------------------
\* update_progress: int((completed / total) * 100) if total > 0 else 0.
\* The quotient and the product are IEEE-754 doubles; FloatShort holds the
\* pairs (total <= 100) whose double product falls just below the exact
\* value, so that int() yields one less than the exact floor.
FloatShort ==
    {<<29, 50>>, <<29, 100>>, <<57, 100>>, <<58, 100>>}

Progress(completed, total) ==
    IF total > 0
    THEN ((100 * completed) \div total)
         - (IF <<completed, total>> \in FloatShort THEN 1 ELSE 0)
    ELSE 0

\* The stats dict a start request installs.
FreshStats ==
    [successful |-> 0, failed |-> 0, start_time |-> FALSE, end_time |-> FALSE]

\* The response of a request handler.
Respond(op, status) ==
    resp' = [op |-> op, status |-> status]

\* A status request that has read nothing yet.
NoSnap ==
    [pc |-> "idle", is_running |-> FALSE, progress |-> 0, completed_tasks |-> 0,
     total_tasks |-> 0, successful |-> 0, failed |-> 0]

\* The thread a start handler launches.  pc, n, idx and db are the thread's
\* locals; the other fields record its history.
NewWorker(n) ==
    [pc |-> "init", n |-> n, idx |-> 0, db |-> FALSE, mw |-> 0,
     stopReq |-> FALSE,   \* a stop request was accepted while the thread ran
     dbres |-> "none",    \* outcome of the current task's insert_bulk_data
     em |-> {}]           \* terminal events the thread has logged

Live(r) == w[r].pc # "done"

Runs == 1..Len(w)

InitState ==
    /\ is_running = FALSE
    /\ progress = 0
    /\ total_tasks = 0
    /\ completed_tasks = 0
    /\ current_tasks = {}
    /\ logs = {}
    /\ pt = <<>>
    /\ executor = "none"
    /\ stats = FreshStats
    /\ w = <<>>
    /\ snap = NoSnap
    /\ resp = [op |-> "none", status |-> "none"]

\* A RouteManager that holds nothing; mode "db" is web_crawler_unified's
\* RouteManager with use_database and a connection.
NoReg(mode) ==
    [mode |-> mode, master |-> <<>>, urls |-> {}, dbids |-> <<>>,
     res |-> "none"]

\* The database as BusDatabase creates it: an empty bus_data table without
\* the crawl_sequence column and an empty crawl_sessions table, on the first
\* day of the behaviour.
NoStore ==
    [bus_data |-> <<>>, crawl_sequence |-> FALSE, today |-> 1, clock |-> 0,
     attempts |-> 0, crawl_sessions |-> <<>>,
     imported |-> [called |-> FALSE, csv_rows |-> 0, added |-> 0,
                   inserted |-> 0, errors |-> 0]]

\* No call of a task generator yet.
NoGen ==
    [fn |-> "none", names |-> <<>>, dates |-> <<>>, tasks |-> <<>>,
     warnings |-> 0, date_warnings |-> 0]

\* No registry, generator or database is part of the behaviour.
NoAux ==
    /\ reg = NoReg("db")
    /\ gen = NoGen
    /\ store = NoStore

Init ==
    /\ app \in Apps
    /\ script = 0
    /\ InitState
    /\ NoAux

----------------------------------------------------------------------------
\* Dates and URL templates.  A string that holds a date is the sequence of
\* its fields between the "-" separators; a field is a sequence of
\* characters, a digit 0..9 or NonDigit.  "2025-12-15" is
\* <<<<2,0,2,5>>, <<1,2>>, <<1,5>>>>, and "15" is <<<<1,5>>>>.

NonDigit == 10

\* str.isdigit() of a field.
IsDigits(f) ==
    Len(f) > 0 /\ \A i \in 1..Len(f) : f[i] \in 0..9

\* int() of a field of digits.
RECURSIVE Val(_)
Val(f) ==
    IF Len(f) = 0 THEN 0 ELSE 10 * Val(SubSeq(f, 1, Len(f) - 1)) + f[Len(f)]

\* str() of a natural number.
RECURSIVE Digits(_)
Digits(n) ==
    IF n < 10 THEN <<n>> ELSE Append(Digits(n \div 10), n % 10)

\* str.zfill(2).
Zfill2(f) ==
    IF Len(f) < 2 THEN <<0>> \o f ELSE f

MonthNames_m ==
    <<"Jan", "Feb", "Mar", "Apr", "May", "Jul",
      "Jun", "Aug", "Sep", "Oct", "Nov", "Dec">>

\* strftime("%b").
MonthNames ==
    <<"Jan", "Feb", "Mar", "Apr", "May", "Jun",
      "Jul", "Aug", "Sep", "Oct", "Nov", "Dec">>

IsLeap(y) ==
    (y % 4 = 0 /\ y % 100 # 0) \/ y % 400 = 0

DaysIn(y, m) ==
    IF m = 2 THEN (IF IsLeap(y) THEN 29 ELSE 28)
    ELSE IF m \in {4, 6, 9, 11} THEN 30 ELSE 31

\* Whether datetime.strptime(s, "%Y-%m-%d") returns: three fields of digits,
\* a year of four digits, a month of one or two digits in 1..12 and a day of
\* one or two digits that the month has.  Otherwise it raises ValueError.
StrptimeOk(s) ==
    /\ Len(s) = 3
    /\ \A i \in 1..3 : IsDigits(s[i])
    /\ Len(s[1]) = 4
    /\ Val(s[1]) >= 1
    /\ Len(s[2]) \in 1..2
    /\ Val(s[2]) \in 1..12
    /\ Len(s[3]) \in 1..2
    /\ Val(s[3]) \in 1..DaysIn(Val(s[1]), Val(s[2]))

\* The date strptime returns.
Strptime(s) ==
    [year |-> Val(s[1]), month |-> Val(s[2]), day |-> Val(s[3])]

\* A URL is a sequence of pieces: literal text, the placeholders [[DAY]],
\* [[MONTH]], [[YEAR]] and [[DATE]], and what str.replace puts in their place.
Lit(t) == [k |-> "lit", s |-> t, n |-> <<>>]
Ph(t) == [k |-> "ph", s |-> t, n |-> <<>>]
Num(f) == [k |-> "num", s |-> "", n |-> f]
Word(t) == [k |-> "word", s |-> t, n |-> <<>>]

\* url.replace(ph, by).
Replace(url, ph, by) ==
    [i \in 1..Len(url) |-> IF url[i] = Ph(ph) THEN by ELSE url[i]]

\* RouteManager._format_redbus_url (and redbus.format_url_with_date): the
\* template with day, month and year put in, or the template as it is when
\* strptime raises.
format_redbus_url(url_template, date_str) ==
    IF StrptimeOk(date_str)
    THEN LET date_obj == Strptime(date_str)
             day == Num(Zfill2(Digits(date_obj.day)))
             month == Word(MonthNames[date_obj.month])
             year == Num(Digits(date_obj.year))
         IN  Replace(Replace(Replace(url_template, "DAY", day), "MONTH", month),
                     "YEAR", year)
    ELSE url_template

----------------------------------------------------------------------------
\* The route registry (RouteManager of routes_manager.py and of
\* web_crawler_unified.py).  A route name is a sequence of pieces: words and
\* the separators "-", " " and "_".

\* str.lower() of a piece.
Lower(t) ==
    CASE t = "Jakarta" -> "jakarta"
      [] t = "Semarang" -> "semarang"
      [] t = "Surabaya" -> "surabaya"
      [] t = "Malang" -> "malang"
      [] t = "Lampung" -> "lampung"
      [] OTHER -> t

\* re.sub(r'[^a-zA-Z0-9\-]', '_', ...) of a piece.
SubSpecial(t) ==
    IF t = " " THEN "_" ELSE t

\* re.sub(r'_+', '_', ...): a run of "_" becomes one.
RECURSIVE Collapse(_)
Collapse(q) ==
    IF Len(q) < 2 THEN q
    ELSE IF q[1] = "_" /\ q[2] = "_" THEN Collapse(Tail(q))
    ELSE <<q[1]>> \o Collapse(Tail(q))

\* str.strip('_').
RECURSIVE Strip(_)
Strip(q) ==
    IF Len(q) = 0 THEN q
    ELSE IF q[1] = "_" THEN Strip(Tail(q))
    ELSE IF q[Len(q)] = "_" THEN Strip(SubSeq(q, 1, Len(q) - 1))
    ELSE q

\* The replace() calls that shorten city names.
Shorten(t) ==
    CASE t = "jakarta" -> "jkt"
      [] t = "surabaya" -> "sby"
      [] t = "semarang" -> "smg"
      [] t = "malang" -> "mlg"
      [] t = "lampung" -> "lpg"
      [] OTHER -> t

\* RouteManager._generate_route_id
generate_route_id(name) ==
    LET subbed == [i \in 1..Len(name) |-> SubSpecial(Lower(name[i]))]
        stripped == Strip(Collapse(subbed))
    IN  [i \in 1..Len(stripped) |-> Shorten(stripped[i])]

\* The route names the requests of the model use.
Names ==
    {<<"Jakarta", "-", "Semarang">>, <<"jkt", "-", "smg">>,
     <<"Jakarta", " ", "Semarang">>, <<"_", "jakarta", " ", "_", "semarang">>,
     <<"Jakarta", "-", "Bandung">>}

NewRoute(id, name) == [id |-> id, name |-> name, active |-> TRUE]

\* The default routes of _ensure_default_routes and the redbus templates of
\* _add_default_redbus_mappings.
default_routes ==
    <<NewRoute(<<"jkt", "_", "smg">>, <<"Jakarta", "-", "Semarang">>),
      NewRoute(<<"jkt", "_", "sby">>, <<"Jakarta", "-", "Surabaya">>),
      NewRoute(<<"jkt", "_", "mlg">>, <<"Jakarta", "-", "Malang">>),
      NewRoute(<<"jkt", "_", "lpg">>, <<"Jakarta", "-", "Lampung">>)>>

DefaultTemplate(city) ==
    <<Lit("https://"), Lit("www.redbus.id/tiket-bus/jakarta-ke-"), Lit(city),
      Lit("?onward="), Ph("DAY"), Lit("-"), Ph("MONTH"), Lit("-"), Ph("YEAR"),
      Lit("&busType=Any&srcCountry=IDN&destCountry=IDN")>>

redbus_urls ==
    {[id |-> <<"jkt", "_", "smg">>, url |-> DefaultTemplate("semarang")],
     [id |-> <<"jkt", "_", "sby">>, url |-> DefaultTemplate("surabaya")],
     [id |-> <<"jkt", "_", "mlg">>, url |-> DefaultTemplate("malang")],
     [id |-> <<"jkt", "_", "lpg">>, url |-> DefaultTemplate("bandar-lampung")]}

\* RouteManager.__init__: without a database the default routes are
\* ensured; with one the JSON data stays as loaded.
NewRegistry(mode) ==
    IF mode = "file"
    THEN [NoReg(mode) EXCEPT !.master = default_routes, !.urls = redbus_urls]
    ELSE NoReg(mode)

\* The templates the requests of the model use: one with scheme and the
\* three placeholders, one without [[YEAR]], one without scheme, and the
\* empty string.
GoodTemplate == DefaultTemplate("semarang")

Templates ==
    {GoodTemplate,
     <<Lit("https://"), Lit("redbus.id/jkt-smg?date="), Ph("DAY"), Lit("-"), Ph("MONTH")>>,
     <<Lit("redbus.id/jkt-smg?date="), Ph("DAY"), Lit("-"), Ph("MONTH"), Lit("-"), Ph("YEAR")>>,
     <<>>}

Range(q) == {q[i] : i \in 1..Len(q)}

\* RouteManager.get_route_by_id: the routes of master_routes with that id
\* (the database table is not consulted).
get_route_by_id(rg, id) ==
    {i \in 1..Len(rg.master) : rg.master[i].id = id}

\* RouteManager.get_route_by_name: the first route of master_routes with
\* that name, or 0.
get_route_by_name(rg, name) ==
    LET hits == {i \in 1..Len(rg.master) : rg.master[i].name = name}
    IN  IF hits = {} THEN 0 ELSE CHOOSE i \in hits : \A j \in hits : i <= j

\* RouteManager.get_platform_url for "redbus" from the JSON data: the
\* template, or the empty string where the code has None.
get_platform_url(rg, id) ==
    IF \E e \in rg.urls : e.id = id
    THEN (CHOOSE e \in rg.urls : e.id = id).url
    ELSE <<>>

\* RouteManager.validate_url_format for "redbus".
validate_url_format(url) ==
    /\ \A ph \in {"DAY", "MONTH", "YEAR"} : Ph(ph) \in Range(url)
    /\ Len(url) > 0
    /\ url[1] \in {Lit("http://"), Lit("https://")}

\* Whether the registry, file and table together, has room for a route.
Room(rg) ==
    Len(rg.master) + Len(rg.dbids) < Len(NewRegistry(rg.mode).master) + MaxRoutes

\* self.routes_data["master_routes"].append(new_route)
AppendRoute(rg, name) ==
    [rg EXCEPT !.master = Append(@, NewRoute(generate_route_id(name), name)),
               !.res = "added"]

\* routes_manager.py RouteManager.add_route
add_route(name) ==
    /\ reg.mode = "file"
    /\ IF get_route_by_id(reg, generate_route_id(name)) # {}
       THEN reg' = [reg EXCEPT !.res = "duplicate"]
       ELSE /\ Room(reg)
            /\ reg' = AppendRoute(reg, name)
    /\ UNCHANGED <<crawler, gen, store>>

\* web_crawler_unified.py RouteManager.add_route: with a database the
\* route is inserted into the routes table; if the INSERT raises, the
\* except clause rolls back and falls through to the JSON file.
unified_add_route(name, inserted) ==
    /\ inserted \/ reg.mode = "db"
    /\ LET route_id == generate_route_id(name)
       IN  IF get_route_by_id(reg, route_id) # {}
           THEN reg' = [reg EXCEPT !.res = "duplicate"]
           ELSE /\ Room(reg)
                /\ IF reg.mode = "db" /\ inserted
                   THEN reg' = [reg EXCEPT !.dbids = Append(@, route_id),
                                          !.res = "added"]
                   ELSE reg' = AppendRoute(reg, name)
    /\ UNCHANGED <<crawler, gen, store>>

\* route["active"] = value on the first route of master_routes with that id.
SetActive(rg, route_id, active) ==
    LET i == CHOOSE i \in get_route_by_id(rg, route_id) :
                 \A j \in get_route_by_id(rg, route_id) : i <= j
    IN  [rg EXCEPT !.master[i].active = active, !.res = "updated"]

\* RouteManager.update_route(route_id, active=...)
update_route(route_id, active) ==
    /\ IF get_route_by_id(reg, route_id) = {}
       THEN reg' = [reg EXCEPT !.res = "no_route"]
       ELSE reg' = SetActive(reg, route_id, active)
    /\ UNCHANGED <<crawler, gen, store>>

\* RouteManager.delete_route: the soft delete.
delete_route(route_id) ==
    update_route(route_id, FALSE)

\* The route ids the requests of the model use.
Ids == {generate_route_id(name) : name \in Names}

\* routes_data["platforms"]["redbus"]["routes"][route_id] = url
StoreUrl(rg, route_id, url) ==
    [rg EXCEPT !.urls = {e \in @ : e.id # route_id} \cup {[id |-> route_id, url |-> url]},
               !.res = "url_added"]

\* del platform_routes[route_id]
RemoveUrl(rg, route_id) ==
    [rg EXCEPT !.urls = {e \in @ : e.id # route_id}, !.res = "url_removed"]

\* RouteManager.add_platform_url for "redbus" (POST
\* /api/routes-manager/routes/<route_id>/urls/<platform> calls it with the
\* url of the request).
add_platform_url(route_id, url) ==
    /\ IF get_route_by_id(reg, route_id) = {}
       THEN reg' = [reg EXCEPT !.res = "no_route"]
       ELSE reg' = StoreUrl(reg, route_id, url)
    /\ UNCHANGED <<crawler, gen, store>>

\* routes_web_api.py update_route_url: the endpoint validates the url and
\* then calls add_platform_url.
update_route_url(route_id, url) ==
    /\ reg.mode = "file"
    /\ IF url = <<>>
       THEN reg' = [reg EXCEPT !.res = "url_required"]
       ELSE IF ~validate_url_format(url)
       THEN reg' = [reg EXCEPT !.res = "invalid"]
       ELSE IF get_route_by_id(reg, route_id) = {}
       THEN reg' = [reg EXCEPT !.res = "no_route"]
       ELSE reg' = StoreUrl(reg, route_id, url)
    /\ UNCHANGED <<crawler, gen, store>>

\* RouteManager.delete_platform_url
delete_platform_url(route_id) ==
    /\ IF \E e \in reg.urls : e.id = route_id
       THEN reg' = RemoveUrl(reg, route_id)
       ELSE reg' = [reg EXCEPT !.res = "no_url"]
    /\ UNCHANGED <<crawler, gen, store>>

----------------------------------------------------------------------------
\* Task generation (CrawlTaskGenerator of url_crawler_formatter.py and of
\* web_crawler_unified.py) over a registry kept in the JSON file.  gen
\* records one call: its arguments, the tasks it returns and the warnings
\* it logs.

\* The date strings the requests of the model use: "2025-12-15",
\* "2025-12-16", "2025-02-30", "15", "15-12-2025" and "2025-1x-05".
Dates ==
    {<<<<2,0,2,5>>, <<1,2>>, <<1,5>>>>, <<<<2,0,2,5>>, <<1,2>>, <<1,6>>>>,
     <<<<2,0,2,5>>, <<0,2>>, <<3,0>>>>, <<<<1,5>>>>,
     <<<<1,5>>, <<1,2>>, <<2,0,2,5>>>>, <<<<2,0,2,5>>, <<1,NonDigit>>, <<0,5>>>>}

\* The route names the task requests of the model use.
TaskNames ==
    {<<"Jakarta", "-", "Semarang">>, <<"Jakarta", "-", "Bandung">>, <<"jkt", "-", "smg">>}

SeqsUpTo(S, n) == UNION {[1..k -> S] : k \in 0..n}

\* RouteManager.format_url_for_date for "redbus": None (here the empty
\* string) without a template.
FormattedUrl(rg, route_id, date_str) ==
    LET url_template == get_platform_url(rg, route_id)
    IN  IF url_template = <<>> THEN <<>>
        ELSE format_redbus_url(url_template, date_str)

\* URLFormatter.validate_date_format
validate_date_format(date_str) == StrptimeOk(date_str)

\* Whether the loop over route names skips the name: the route is not in
\* master_routes, or it has no redbus template.
Skipped(rg, route_name) ==
    \/ get_route_by_name(rg, route_name) = 0
    \/ get_platform_url(rg, rg.master[get_route_by_name(rg, route_name)].id) = <<>>

\* The tasks the inner loop over the dates appends for one route name;
\* validate says whether the loop checks validate_date_format.
RouteTasks(rg, route_name, dates, validate) ==
    IF Skipped(rg, route_name) THEN <<>>
    ELSE LET route == rg.master[get_route_by_name(rg, route_name)]
             kept == SelectSeq(dates, LAMBDA d : ~validate \/ validate_date_format(d))
         IN  [i \in 1..Len(kept) |->
                 [route |-> route_name, date |-> kept[i],
                  url |-> FormattedUrl(rg, route.id, kept[i])]]

\* The outer loop over the route names.
RECURSIVE GeneratedTasks(_, _, _, _)
GeneratedTasks(rg, route_names, dates, validate) ==
    IF Len(route_names) = 0 THEN <<>>
    ELSE RouteTasks(rg, route_names[1], dates, validate)
         \o GeneratedTasks(rg, Tail(route_names), dates, validate)

\* The warnings url_crawler_formatter.py prints about routes: one for a
\* route that is not found, one for a route without template.
RECURSIVE RouteWarnings(_, _)
RouteWarnings(rg, route_names) ==
    IF Len(route_names) = 0 THEN 0
    ELSE (IF Skipped(rg, route_names[1]) THEN 1 ELSE 0)
         + RouteWarnings(rg, Tail(route_names))

\* The warnings it prints about dates: one for each invalid date of a
\* route that is not skipped.
RECURSIVE DateWarnings(_, _, _)
DateWarnings(rg, route_names, dates) ==
    IF Len(route_names) = 0 THEN 0
    ELSE (IF Skipped(rg, route_names[1]) THEN 0
          ELSE Len(SelectSeq(dates, LAMBDA d : ~validate_date_format(d))))
         + DateWarnings(rg, Tail(route_names), dates)

\* start_crawling: "Convert dates to full format".
date_full(date) ==
    IF Len(date) = 1 /\ IsDigits(date[1]) /\ Len(date[1]) <= 2
    THEN <<<<2,0,2,5>>, <<1,2>>, Zfill2(date[1])>>
    ELSE date

\* url_crawler_formatter.py CrawlTaskGenerator.generate_redbus_tasks
generate_redbus_tasks(route_names, dates) ==
    /\ reg.mode = "file"
    /\ gen.fn = "none"
    /\ gen' = [fn |-> "formatter", names |-> route_names, dates |-> dates,
               tasks |-> GeneratedTasks(reg, route_names, dates, TRUE),
               warnings |-> RouteWarnings(reg, route_names),
               date_warnings |-> DateWarnings(reg, route_names, dates)]
    /\ UNCHANGED <<crawler, reg, store>>

\* web_crawler_unified.py CrawlTaskGenerator.generate_redbus_tasks as
\* /api/start/redbus calls it (convert: the dates are first converted to
\* full format) and as /api/v2/crawl/start calls it.  It logs nothing.
unified_generate_redbus_tasks(route_names, dates, convert) ==
    /\ reg.mode = "file"
    /\ gen.fn = "none"
    /\ LET full == IF convert THEN [i \in 1..Len(dates) |-> date_full(dates[i])]
                   ELSE dates
       IN  gen' = [fn |-> IF convert THEN "start" ELSE "v2",
                   names |-> route_names, dates |-> dates,
                   tasks |-> GeneratedTasks(reg, route_names, full, FALSE),
                   warnings |-> 0, date_warnings |-> 0]
    /\ UNCHANGED <<crawler, reg, store>>

\* The date strings of the calls of format_url_for_date: a year, and a
\* month and a day of one or two digits.
Fields2 == {<<a>> : a \in 0..9} \cup {<<a, b>> : a \in 0..3, b \in 0..9}

DateStrings ==
    {<<y, m, d>> : y \in {<<2,0,2,4>>, <<2,0,2,5>>, <<1,9,0,0>>}, m \in Fields2, d \in Fields2}

\* RouteManager.format_url_for_date for "redbus".
format_url_for_date(route_id, date_str) ==
    /\ reg.mode = "file"
    /\ gen.fn = "none"
    /\ gen' = [fn |-> "format", names |-> <<route_id>>, dates |-> <<date_str>>,
               tasks |-> <<[route |-> route_id, date |-> date_str,
                            url |-> FormattedUrl(reg, route_id, date_str)]>>,
               warnings |-> 0, date_warnings |-> 0]
    /\ UNCHANGED <<crawler, reg, store>>

----------------------------------------------------------------------------
\* The bus_data table (database.py) and the migration that adds
\* crawl_sequence (migrate_add_crawl_sequence.py).  A row holds its route
\* and route date, the calendar day and the instant of its crawl_timestamp,
\* the crawl attempt that wrote it, and crawl_sequence (0 while the table
\* has no such column).

\* The (route_name, route_date) pairs of the records.
RouteDates == {"Jakarta-Semarang|2025-12-15", "Jakarta-Semarang|2025-12-16"}

\* BusDatabase.insert_bus_data: the INSERT names neither crawl_timestamp
\* nor crawl_sequence, so the row gets CURRENT_TIMESTAMP and, once the
\* column exists, its DEFAULT 1.
InsertRow(st, route_date, attempt) ==
    [st EXCEPT !.clock = @ + 1,
               !.bus_data = Append(@, [route_date |-> route_date, day |-> st.today,
                                       crawl_timestamp |-> st.clock + 1,
                                       attempt |-> attempt,
                                       crawl_sequence |-> IF st.crawl_sequence THEN 1 ELSE 0])]

RECURSIVE InsertRows(_, _, _, _)
InsertRows(st, route_date, attempt, n) ==
    IF n = 0 THEN st
    ELSE InsertRows(InsertRow(st, route_date, attempt), route_date, attempt, n - 1)

\* BusDatabase.insert_bulk_data with the n records of one crawl attempt
\* (insert_bus_data when n = 1).
insert_bulk_data(route_date, n) ==
    /\ Len(store.bus_data) + n <= MaxRows
    /\ store' = [InsertRows(store, route_date, store.attempts + 1, n)
                    EXCEPT !.attempts = @ + 1]
    /\ UNCHANGED <<crawler, reg, gen>>

\* The sequence number update_existing_records gives a row: its place, by
\* crawl_timestamp, among the rows of its route, route date and DATE(
\* crawl_timestamp).
sequence_num(data, i) ==
    Cardinality({j \in 1..Len(data) :
                    /\ data[j].route_date = data[i].route_date
                    /\ data[j].day = data[i].day
                    /\ data[j].crawl_timestamp <= data[i].crawl_timestamp})

\* migrate_add_crawl_sequence.py main: the column is added if it is not
\* there, and update_existing_records numbers every row.
migrate ==
    /\ store' = [store EXCEPT !.crawl_sequence = TRUE,
                              !.bus_data = [i \in 1..Len(@) |->
                                  [@[i] EXCEPT !.crawl_sequence = sequence_num(store.bus_data, i)]]]
    /\ UNCHANGED <<crawler, reg, gen>>

\* BusDatabase.start_crawl_session: a row with status 'running'; its id is
\* its place in the table.
start_crawl_session(route_date) ==
    /\ Len(store.crawl_sessions) < MaxSessions
    /\ store' = [store EXCEPT !.crawl_sessions =
                     Append(@, [route_date |-> route_date, status |-> "running",
                                total_records |-> 0])]
    /\ UNCHANGED <<crawler, reg, gen>>

\* BusDatabase.end_crawl_session: the UPDATE of the row with that id.
end_crawl_session(session_id, total_records, status) ==
    /\ session_id \in 1..Len(store.crawl_sessions)
    /\ store' = [store EXCEPT !.crawl_sessions[session_id].status = status,
                              !.crawl_sessions[session_id].total_records = total_records]
    /\ UNCHANGED <<crawler, reg, gen>>

\* insert_bulk_data over records of which insert_bus_data stores some
\* ("ok") and raises on the others ("raise"): the table afterwards.
RECURSIVE InsertEach(_, _, _, _)
InsertEach(st, route_date, attempt, outcomes) ==
    IF Len(outcomes) = 0 THEN st
    ELSE InsertEach(IF outcomes[1] = "ok" THEN InsertRow(st, route_date, attempt) ELSE st,
                    route_date, attempt, Tail(outcomes))

\* The dictionary insert_bulk_data returns: the keys 'inserted' and 'errors'.
BulkStats(outcomes) ==
    [inserted |-> Len(SelectSeq(outcomes, LAMBDA o : o = "ok")),
     errors |-> Len(SelectSeq(outcomes, LAMBDA o : o = "raise"))]

\* What import_from_csv returns.  Its print reads stats['duplicates']: on a
\* dictionary without that key the lookup raises KeyError, and the except
\* clause, which also takes a CSV that cannot be read, returns the fixed
\* dictionary.
ImportStats(readable, bulk) ==
    IF readable /\ "duplicates" \in DOMAIN bulk
    THEN [inserted |-> bulk.inserted, errors |-> bulk.errors]
    ELSE [inserted |-> 0, errors |-> 1]

\* BusDatabase.import_from_csv of a CSV file with one row per element of
\* outcomes; unreadable: pd.read_csv raises.
import_from_csv(route_date, outcomes, readable) ==
    /\ Len(store.bus_data) + Len(outcomes) <= MaxRows
    /\ store.attempts < MaxRows
    /\ LET after == IF readable
                    THEN [InsertEach(store, route_date, store.attempts + 1, outcomes)
                             EXCEPT !.attempts = @ + 1]
                    ELSE store
           ret == ImportStats(readable, BulkStats(outcomes))
       IN  store' = [after EXCEPT !.imported =
                        [called |-> TRUE, csv_rows |-> Len(outcomes),
                         added |-> Len(after.bus_data) - Len(store.bus_data),
                         inserted |-> ret.inserted, errors |-> ret.errors]]
    /\ UNCHANGED <<crawler, reg, gen>>

\* Midnight: later rows get the next calendar day.
next_day ==
    /\ store.today < MaxDays
    /\ store' = [store EXCEPT !.today = @ + 1]
    /\ UNCHANGED <<crawler, reg, gen>>

----------------------------------------------------------------------------
\* Request handlers of the unified front-end.

\* A start handler that never finds a run active.
AlreadyRunning_m == FALSE

\* The guard every start handler begins with.
AlreadyRunning == is_running

\* What an accepted start does before it generates the tasks.
ResetRun ==
    /\ stats' = FreshStats
    /\ logs' = {}
    /\ progress' = 0
    /\ completed_tasks' = 0

\* A rejected request: nothing but the response.
Reject(op, status) ==
    /\ Respond(op, status)
    /\ UNCHANGED <<aux, app, snap, pt, executor, script, state, w>>

\* The record kept of a thread that has ended, once a later run starts.
Ended == [NewWorker(0) EXCEPT !.pc = "done"]

\* Whether the model explores a start request that passes the handler's
\* guard: at most cap starts are accepted, and without overlap the client
\* sends one only when is_running holds or every earlier thread has ended.
Explored(cap, overlap) ==
    /\ Len(w) < cap
    /\ overlap \/ is_running \/ \A r \in Runs : ~Live(r)

\* The rest of an accepted start: total_tasks and the thread.
Launch(n) ==
    /\ total_tasks' = n
    /\ w' = Append([r \in Runs |-> IF Live(r) THEN w[r] ELSE Ended], NewWorker(n))
    /\ Respond("start", "started")

\* POST /api/start/redbus
start_crawling(cap, overlap, n) ==
    /\ app = "unified"
    /\ IF AlreadyRunning
       THEN Reject("start", "already_running")
       ELSE /\ Explored(cap, overlap)
            /\ ResetRun
            /\ Launch(n)
            /\ UNCHANGED <<aux, app, snap, pt, executor, script, is_running, current_tasks>>

\* POST /api/v2/crawl/start
api_v2_start_crawling(cap, overlap, missing, n) ==
    /\ app = "unified"
    /\ IF AlreadyRunning
       THEN Reject("start", "already_running")
       ELSE IF missing
       THEN Reject("start", "missing")
       ELSE IF n = 0
       THEN /\ ResetRun
            /\ Respond("start", "no_tasks")
            /\ UNCHANGED <<aux, app, snap, pt, executor, script, is_running, total_tasks, current_tasks, w>>
       ELSE /\ Explored(cap, overlap)
            /\ ResetRun
            /\ Launch(n)
            /\ UNCHANGED <<aux, app, snap, pt, executor, script, is_running, current_tasks>>

\* The threads a stop request reaches: those still running.
MarkStop ==
    [r \in Runs |-> IF Live(r) THEN [w[r] EXCEPT !.stopReq = TRUE] ELSE w[r]]

\* POST /api/stop/redbus and POST /api/v2/crawl/stop
stop_crawling ==
    /\ app = "unified"
    /\ IF ~is_running
       THEN Reject("stop", "not_running")
       ELSE /\ is_running' = FALSE
            /\ logs' = logs \cup {"stop_requested"}
            /\ w' = MarkStop
            /\ Respond("stop", "stopping")
            /\ UNCHANGED <<aux, app, snap, pt, executor, script, progress, total_tasks, completed_tasks,
                           current_tasks, stats>>

----------------------------------------------------------------------------
\* redbus_worker, the sequential worker thread of the unified front-end.

\* Lines 559-565: the thread's first statements.
redbus_worker_init(r) ==
    /\ app = "unified"
    /\ w[r].pc = "init"
    /\ is_running' = TRUE
    /\ stats' = [stats EXCEPT !.start_time = TRUE]
    /\ completed_tasks' = 0
    /\ current_tasks' = {}
    /\ w' = [w EXCEPT ![r].pc = "setup"]
    /\ UNCHANGED <<aux, app, snap, pt, executor, script, progress, total_tasks, logs, resp>>

\* An except clause that logs nothing.
SetupLogs_m(drvok) == {}

\* What the outer except clause logs when the driver cannot be initialised.
SetupLogs(drvok) ==
    IF drvok THEN {} ELSE {"fatal"}

\* Lines 573-582: the database connection (a failure is a warning, the run goes
\* on without a database) and the driver (a failure leaves the try block for
\* the outer except, which logs 'Fatal error').
redbus_worker_setup(r, dbok, drvok) ==
    /\ app = "unified"
    /\ w[r].pc = "setup"
    /\ logs' = logs \cup SetupLogs(drvok)
    /\ w' = [w EXCEPT ![r].db = dbok,
                      ![r].em = @ \cup SetupLogs(drvok),
                      ![r].pc = IF drvok THEN "loop" ELSE "finally"]
    /\ UNCHANGED <<aux, app, snap, pt, executor, script, is_running, progress, total_tasks, completed_tasks,
                   current_tasks, stats, resp>>

\* What the worker logs when its for loop ends: 'Crawling stopped by user'
\* before a break, and 'All tasks completed!' after the loop either way.
LoopExitLogs(stopped) ==
    IF stopped THEN {"stopped", "completed"} ELSE {"completed"}

\* Lines 584-603 and 644: the head of the for loop.  The loop ends when the
\* tasks are exhausted or is_running is found false.
redbus_worker_loop(r) ==
    /\ app = "unified"
    /\ w[r].pc = "loop"
    /\ IF w[r].idx = w[r].n \/ ~is_running
       THEN /\ logs' = logs \cup LoopExitLogs(w[r].idx < w[r].n)
            /\ w' = [w EXCEPT ![r].em = @ \cup LoopExitLogs(w[r].idx < w[r].n),
                              ![r].pc = "finally"]
            /\ UNCHANGED current_tasks
       ELSE /\ current_tasks' = {[task |-> w[r].idx + 1, worker_id |-> 0]}
            /\ w' = [w EXCEPT ![r].pc = "scrape"]
            /\ UNCHANGED logs
    /\ UNCHANGED <<aux, app, snap, pt, executor, script, is_running, progress, total_tasks, completed_tasks,
                   stats, resp>>

\* A worker that counts a task whose insert_bulk_data raised as failed.
redbus_kind_m(out, dbout) ==
    IF out = "data" /\ dbout # "raise" THEN "successful" ELSE "failed"

\* Which counter of stats a task's outcome increments in redbus_worker: a
\* non-empty result counts as successful whatever insert_bulk_data did (its
\* exception is caught by the inner try and logged as a warning).
redbus_kind(out, dbout) ==
    IF out = "data" THEN "successful" ELSE "failed"

\* Lines 605-633: get_redbus_data returns a non-empty list, an empty list or
\* raises; a non-empty list is written to CSV and, with a database, handed to
\* insert_bulk_data; then one counter of stats is incremented.
redbus_worker_scrape(r, out, dbout) ==
    /\ app = "unified"
    /\ w[r].pc = "scrape"
    /\ (out = "data" /\ w[r].db) \/ dbout = "none"
    /\ script = 0 \/ out = (IF w[r].idx + 1 = script THEN "raise" ELSE "data")
    /\ logs' = logs \cup (IF dbout = "raise" THEN {"db_insert_error"} ELSE {})
    /\ stats' = [stats EXCEPT ![redbus_kind(out, dbout)] = @ + 1]
    /\ w' = [w EXCEPT ![r].dbres = dbout, ![r].pc = "fin"]
    /\ UNCHANGED <<aux, app, snap, pt, executor, script, is_running, progress, total_tasks, completed_tasks,
                   current_tasks, resp>>

\* Line 636: completed_tasks += 1.
redbus_worker_fin(r) ==
    /\ app = "unified"
    /\ w[r].pc = "fin"
    /\ completed_tasks' = completed_tasks + 1
    /\ w' = [w EXCEPT ![r].dbres = "none", ![r].pc = "prog"]
    /\ UNCHANGED <<aux, app, snap, pt, executor, script, is_running, progress, total_tasks, current_tasks,
                   logs, stats, resp>>

\* Lines 637-642: update_progress, current_tasks = [], and on to the next task.
redbus_worker_prog(r) ==
    /\ app = "unified"
    /\ w[r].pc = "prog"
    /\ progress' = Progress(completed_tasks, total_tasks)
    /\ current_tasks' = {}
    /\ w' = [w EXCEPT ![r].idx = @ + 1, ![r].pc = "loop"]
    /\ UNCHANGED <<aux, app, snap, pt, executor, script, is_running, total_tasks, completed_tasks, logs,
                   stats, resp>>

\* A finally block that records no end_time.
redbus_worker_finally_m(r) ==
    /\ app = "unified"
    /\ w[r].pc = "finally"
    /\ is_running' = FALSE
    /\ current_tasks' = {}
    /\ progress' = Progress(completed_tasks, total_tasks)
    /\ w' = [w EXCEPT ![r].db = FALSE, ![r].pc = "done"]
    /\ UNCHANGED <<aux, app, snap, pt, executor, script, total_tasks, completed_tasks, logs,
                   stats, resp>>

\* Lines 649-666: the outer finally block.
redbus_worker_finally(r) ==
    /\ app = "unified"
    /\ w[r].pc = "finally"
    /\ is_running' = FALSE
    /\ stats' = [stats EXCEPT !.end_time = TRUE]
    /\ current_tasks' = {}
    /\ progress' = Progress(completed_tasks, total_tasks)
    /\ w' = [w EXCEPT ![r].db = FALSE, ![r].pc = "done"]
    /\ UNCHANGED <<aux, app, snap, pt, executor, script, total_tasks, completed_tasks, logs, resp>>

----------------------------------------------------------------------------
\* GET /api/v2/crawl/status: the handler builds its response from
\* crawling_state field by field, without a lock, while the worker thread
\* runs (GET /api/status hands the live dict to jsonify, which walks it the
\* same way).

\* Lines 200-201: is_running and progress are read.
api_v2_crawl_status_1 ==
    /\ app = "unified"
    /\ snap.pc \in {"idle", "ready"}
    /\ snap' = [NoSnap EXCEPT !.pc = "r2", !.is_running = is_running,
                              !.progress = progress]
    /\ UNCHANGED <<aux, app, pt, executor, script, state, w, resp>>

\* Lines 202-203: completed_tasks and total_tasks are read.
api_v2_crawl_status_2 ==
    /\ app = "unified"
    /\ snap.pc = "r2"
    /\ snap' = [snap EXCEPT !.pc = "r3", !.completed_tasks = completed_tasks,
                            !.total_tasks = total_tasks]
    /\ UNCHANGED <<aux, app, pt, executor, script, state, w, resp>>

\* Lines 199-208: jsonify serialises the response; the stats dict, taken by
\* reference at line 205, is read now.
api_v2_crawl_status_3 ==
    /\ app = "unified"
    /\ snap.pc = "r3"
    /\ snap' = [snap EXCEPT !.pc = "ready", !.successful = stats.successful,
                            !.failed = stats.failed]
    /\ UNCHANGED <<aux, app, pt, executor, script, state, w, resp>>

----------------------------------------------------------------------------
\* The traveloka front-end (web_crawler_ui.py).  Its crawling_state has no
\* completed_tasks and no current_tasks: the two variables keep their
\* initial values here.

\* POST /api/start
ui_start_crawling(cap, n) ==
    /\ app = "traveloka"
    /\ IF AlreadyRunning
       THEN Reject("start", "already_running")
       ELSE /\ Explored(cap, FALSE)
            /\ stats' = FreshStats
            /\ logs' = {}
            /\ progress' = 0
            /\ w' = Append([r \in Runs |-> IF Live(r) THEN w[r] ELSE Ended], NewWorker(n))
            /\ Respond("start", "started")
            /\ UNCHANGED <<aux, app, snap, pt, executor, script, is_running, total_tasks,
                           completed_tasks, current_tasks>>

\* POST /api/stop
ui_stop_crawling ==
    /\ app = "traveloka"
    /\ IF ~is_running
       THEN Reject("stop", "not_running")
       ELSE /\ is_running' = FALSE
            /\ logs' = logs \cup {"stop_requested"}
            /\ w' = MarkStop
            /\ Respond("stop", "stopping")
            /\ UNCHANGED <<aux, app, snap, pt, executor, script, progress, total_tasks, completed_tasks,
                           current_tasks, stats>>

\* Lines 68-83: the first statements of crawl_worker.
ui_crawl_worker_init(r) ==
    /\ app = "traveloka"
    /\ w[r].pc = "init"
    /\ is_running' = TRUE
    /\ stats' = [stats EXCEPT !.start_time = TRUE]
    /\ w' = [w EXCEPT ![r].pc = "setup"]
    /\ UNCHANGED <<aux, app, snap, pt, executor, script, progress, total_tasks, completed_tasks,
                   current_tasks, logs, resp>>

\* Lines 86-87 and 142-143: the driver; a failure is caught by the outer
\* except, which logs 'Fatal error'.
ui_crawl_worker_setup(r, drvok) ==
    /\ app = "traveloka"
    /\ w[r].pc = "setup"
    /\ logs' = logs \cup SetupLogs(drvok)
    /\ w' = [w EXCEPT ![r].em = @ \cup SetupLogs(drvok),
                      ![r].pc = IF drvok THEN "loop" ELSE "finally"]
    /\ UNCHANGED <<aux, app, snap, pt, executor, script, is_running, progress, total_tasks, completed_tasks,
                   current_tasks, stats, resp>>

\* Lines 90-115 and 140: the head of the loops.  A task begins with
\* current_task += 1 and update_progress(current_task, total_tasks, ...).
ui_crawl_worker_loop(r) ==
    /\ app = "traveloka"
    /\ w[r].pc = "loop"
    /\ IF w[r].idx = w[r].n \/ ~is_running
       THEN /\ logs' = logs \cup LoopExitLogs(w[r].idx < w[r].n)
            /\ w' = [w EXCEPT ![r].em = @ \cup LoopExitLogs(w[r].idx < w[r].n),
                              ![r].pc = "finally"]
            /\ UNCHANGED <<progress, total_tasks>>
       ELSE /\ progress' = Progress(w[r].idx + 1, w[r].n)
            /\ total_tasks' = w[r].n
            /\ w' = [w EXCEPT ![r].pc = "scrape"]
            /\ UNCHANGED logs
    /\ UNCHANGED <<aux, app, snap, pt, executor, script, is_running, completed_tasks, current_tasks,
                   stats, resp>>

\* Lines 117-138: get_bus_detail returns a non-empty list, an empty list or
\* raises, and one counter of stats is incremented.
ui_crawl_worker_scrape(r, out) ==
    /\ app = "traveloka"
    /\ w[r].pc = "scrape"
    /\ stats' = [stats EXCEPT ![IF out = "data" THEN "successful" ELSE "failed"] = @ + 1]
    /\ w' = [w EXCEPT ![r].idx = @ + 1, ![r].pc = "loop"]
    /\ UNCHANGED <<aux, app, snap, pt, executor, script, is_running, progress, total_tasks, completed_tasks,
                   current_tasks, logs, resp>>

\* Lines 145-152: the finally block, ending with update_progress(100, 100,
\* 'Completed').
ui_crawl_worker_finally(r) ==
    /\ app = "traveloka"
    /\ w[r].pc = "finally"
    /\ is_running' = FALSE
    /\ stats' = [stats EXCEPT !.end_time = TRUE]
    /\ progress' = Progress(100, 100)
    /\ total_tasks' = 100
    /\ w' = [w EXCEPT ![r].pc = "done"]
    /\ UNCHANGED <<aux, app, snap, pt, executor, script, completed_tasks, current_tasks, logs, resp>>

----------------------------------------------------------------------------
\* The pool front-end (web_crawler_redbus.py).

\* A crawl_single_task call the run will submit: st is its position, tmp the
\* value it has read and not yet written back, wid its worker_id.
NewTask == [st |-> "new", tmp |-> 0, wid |-> 0]

Tasks == 1..Len(pt)

\* The calls a pool thread is executing.
Executing == {i \in Tasks : pt[i].st \notin {"new", "queued", "done"}}

\* POST /api/start
pool_start_crawling(cap, missing, n, mw) ==
    /\ app = "pool"
    /\ IF AlreadyRunning
       THEN Reject("start", "already_running")
       ELSE IF missing
       THEN Reject("start", "missing")
       ELSE /\ Explored(cap, FALSE)
            /\ ResetRun
            /\ total_tasks' = n
            /\ w' = Append([r \in Runs |-> IF Live(r) THEN w[r] ELSE Ended],
                           [NewWorker(n) EXCEPT !.mw = mw])
            /\ pt' = [i \in 1..n |-> NewTask]
            /\ Respond("start", "started")
            /\ UNCHANGED <<aux, app, snap, executor, script, is_running, current_tasks>>

\* POST /api/stop: executor.shutdown(wait=False) refuses later submits; the
\* calls already submitted stay in the executor's queue and are run.
pool_stop_crawling ==
    /\ app = "pool"
    /\ IF ~is_running
       THEN Reject("stop", "not_running")
       ELSE /\ is_running' = FALSE
            /\ logs' = logs \cup {"stop_requested"}
            /\ executor' = IF executor = "none" THEN "none" ELSE "shut"
            /\ w' = MarkStop
            /\ Respond("stop", "stopping")
            /\ UNCHANGED <<aux, app, snap, pt, script, progress, total_tasks, completed_tasks,
                           current_tasks, stats>>

\* Lines 143-149: the first statements of crawl_worker.
pool_crawl_worker_init(r) ==
    /\ app = "pool"
    /\ w[r].pc = "init"
    /\ is_running' = TRUE
    /\ stats' = [stats EXCEPT !.start_time = TRUE]
    /\ completed_tasks' = 0
    /\ current_tasks' = {}
    /\ w' = [w EXCEPT ![r].pc = "pool"]
    /\ UNCHANGED <<aux, app, snap, pt, executor, script, progress, total_tasks, logs, resp>>

\* Line 152: executor = ThreadPoolExecutor(max_workers).
pool_crawl_worker_executor(r) ==
    /\ app = "pool"
    /\ w[r].pc = "pool"
    /\ executor' = "open"
    /\ w' = [w EXCEPT ![r].pc = IF w[r].n = 0 THEN "wait" ELSE "submit"]
    /\ UNCHANGED <<aux, app, snap, pt, script, state, resp>>

\* Lines 156-160 and 173-174: one executor.submit.  On an executor that was
\* shut down submit raises RuntimeError, which the except clause logs as
\* 'Fatal error'.
pool_crawl_worker_submit(r) ==
    /\ app = "pool"
    /\ w[r].pc = "submit"
    /\ IF executor = "shut"
       THEN /\ logs' = logs \cup {"fatal"}
            /\ w' = [w EXCEPT ![r].em = @ \cup {"fatal"}, ![r].pc = "finally"]
            /\ UNCHANGED pt
       ELSE /\ pt' = [pt EXCEPT ![w[r].idx + 1].st = "queued",
                                ![w[r].idx + 1].wid = (w[r].idx % w[r].mw) + 1]
            /\ w' = [w EXCEPT ![r].idx = @ + 1,
                              ![r].pc = IF w[r].idx + 1 = w[r].n THEN "wait" ELSE "submit"]
            /\ UNCHANGED logs
    /\ UNCHANGED <<aux, app, snap, executor, script, is_running, progress, total_tasks, completed_tasks,
                   current_tasks, stats, resp>>

\* Lines 163-171: as_completed returns when every submitted call has ended.
pool_crawl_worker_wait(r) ==
    /\ app = "pool"
    /\ w[r].pc = "wait"
    /\ \A i \in Tasks : pt[i].st = "done"
    /\ logs' = logs \cup {"completed"}
    /\ w' = [w EXCEPT ![r].em = @ \cup {"completed"}, ![r].pc = "finally"]
    /\ UNCHANGED <<aux, app, snap, pt, executor, script, is_running, progress, total_tasks, completed_tasks,
                   current_tasks, stats, resp>>

\* Lines 176-183: the finally block; executor.shutdown(wait=True) returns
\* when the pool threads have run every submitted call.
pool_crawl_worker_finally(r) ==
    /\ app = "pool"
    /\ w[r].pc = "finally"
    /\ \A i \in Tasks : pt[i].st \in {"new", "done"}
    /\ executor' = "shut"
    /\ is_running' = FALSE
    /\ stats' = [stats EXCEPT !.end_time = TRUE]
    /\ current_tasks' = {}
    /\ progress' = Progress(completed_tasks, total_tasks)
    /\ w' = [w EXCEPT ![r].pc = "done"]
    /\ UNCHANGED <<aux, app, snap, pt, script, total_tasks, completed_tasks, logs, resp>>

\* Lines 78-87: a pool thread takes the oldest queued call and enters
\* crawl_single_task; at most max_workers calls execute at a time.
crawl_single_task_begin(r, i) ==
    /\ app = "pool"
    /\ Live(r)
    /\ pt[i].st = "queued"
    /\ \A j \in 1..(i - 1) : pt[j].st # "queued"
    /\ Cardinality(Executing) < w[r].mw
    /\ current_tasks' = current_tasks \cup {[task |-> i, worker_id |-> pt[i].wid]}
    /\ pt' = [pt EXCEPT ![i].st = "scrape"]
    /\ UNCHANGED <<aux, app, snap, executor, script, is_running, progress, total_tasks, completed_tasks,
                   logs, stats, w, resp>>

\* How a call ends: initialize_driver and get_bus_detail are inside the try
\* block of crawl_single_task.  "fd": the driver could not be initialised;
\* "f": no data or the scraper raised; "s": data.
pool_kind(drvok, out) ==
    IF ~drvok THEN "fd" ELSE IF out = "data" THEN "s" ELSE "f"

\* The counter of stats a call that ends that way increments.
StatsKey(k) == IF k = "s" THEN "successful" ELSE "failed"

\* Lines 90-112: the driver and the scrape, up to the read of
\* stats[...] += 1.
crawl_single_task_scrape(i, drvok, out) ==
    /\ app = "pool"
    /\ pt[i].st = "scrape"
    /\ script = 0 \/ (drvok /\ out = (IF i = script THEN "raise" ELSE "data"))
    /\ pt' = [pt EXCEPT ![i].st = pool_kind(drvok, out),
                        ![i].tmp = stats[StatsKey(pool_kind(drvok, out))]]
    /\ UNCHANGED <<aux, app, snap, executor, script, state, w, resp>>

\* Lines 102, 106, 112: the write of stats[...] += 1.
crawl_single_task_count(i) ==
    /\ app = "pool"
    /\ pt[i].st \in {"s", "f", "fd"}
    /\ stats' = [stats EXCEPT ![StatsKey(pt[i].st)] = pt[i].tmp + 1]
    /\ pt' = [pt EXCEPT ![i].st = "cur", ![i].tmp = 0]
    /\ UNCHANGED <<aux, app, snap, executor, script, is_running, progress, total_tasks, completed_tasks,
                   current_tasks, logs, w, resp>>

\* Lines 124-127: current_tasks loses every entry with this call's worker_id.
crawl_single_task_cur(i) ==
    /\ app = "pool"
    /\ pt[i].st = "cur"
    /\ current_tasks' = {t \in current_tasks : t.worker_id # pt[i].wid}
    /\ pt' = [pt EXCEPT ![i].st = "fin_r"]
    /\ UNCHANGED <<aux, app, snap, executor, script, is_running, progress, total_tasks, completed_tasks,
                   logs, stats, w, resp>>

\* Line 130: the read of completed_tasks += 1.
crawl_single_task_fin_r(i) ==
    /\ app = "pool"
    /\ pt[i].st = "fin_r"
    /\ pt' = [pt EXCEPT ![i].st = "fin_w", ![i].tmp = completed_tasks]
    /\ UNCHANGED <<aux, app, snap, executor, script, state, w, resp>>

\* Line 130: the write of completed_tasks += 1.
crawl_single_task_fin_w(i) ==
    /\ app = "pool"
    /\ pt[i].st = "fin_w"
    /\ completed_tasks' = pt[i].tmp + 1
    /\ pt' = [pt EXCEPT ![i].st = "prog_r", ![i].tmp = 0]
    /\ UNCHANGED <<aux, app, snap, executor, script, is_running, progress, total_tasks, current_tasks,
                   logs, stats, w, resp>>

\* Lines 57-59: update_progress reads completed_tasks and total_tasks.
crawl_single_task_prog_r(i) ==
    /\ app = "pool"
    /\ pt[i].st = "prog_r"
    /\ pt' = [pt EXCEPT ![i].st = "prog_w", ![i].tmp = Progress(completed_tasks, total_tasks)]
    /\ UNCHANGED <<aux, app, snap, executor, script, state, w, resp>>

\* Line 59: update_progress writes progress; the call has ended.
crawl_single_task_prog_w(i) ==
    /\ app = "pool"
    /\ pt[i].st = "prog_w"
    /\ progress' = pt[i].tmp
    /\ pt' = [pt EXCEPT ![i].st = "done", ![i].tmp = 0]
    /\ UNCHANGED <<aux, app, snap, executor, script, is_running, total_tasks, completed_tasks,
                   current_tasks, logs, stats, w, resp>>

----------------------------------------------------------------------------
Outcomes == {"data", "empty", "raise"}
DbOutcomes == {"ok", "raise", "none"}

\* The steps of the unified front-end, for start requests that generate a
\* number of tasks in counts.
NextUnified(cap, overlap, counts) ==
    \/ \E n \in counts : start_crawling(cap, overlap, n)
    \/ \E missing \in BOOLEAN, n \in counts :
           api_v2_start_crawling(cap, overlap, missing, n)
    \/ stop_crawling
    \/ \E r \in Runs : redbus_worker_init(r)
    \/ \E r \in Runs, dbok \in BOOLEAN, drvok \in BOOLEAN : redbus_worker_setup(r, dbok, drvok)
    \/ \E r \in Runs : redbus_worker_loop(r)
    \/ \E r \in Runs, out \in Outcomes, dbout \in DbOutcomes : redbus_worker_scrape(r, out, dbout)
    \/ \E r \in Runs : redbus_worker_fin(r)
    \/ \E r \in Runs : redbus_worker_prog(r)
    \/ \E r \in Runs : redbus_worker_finally(r)

\* The steps of the traveloka front-end.
NextUi(cap, counts) ==
    \/ \E n \in counts : ui_start_crawling(cap, n)
    \/ ui_stop_crawling
    \/ \E r \in Runs : ui_crawl_worker_init(r)
    \/ \E r \in Runs, drvok \in BOOLEAN : ui_crawl_worker_setup(r, drvok)
    \/ \E r \in Runs : ui_crawl_worker_loop(r)
    \/ \E r \in Runs, out \in Outcomes : ui_crawl_worker_scrape(r, out)
    \/ \E r \in Runs : ui_crawl_worker_finally(r)

\* The steps of the pool front-end.
NextPool(cap, counts, workers) ==
    \/ \E missing \in BOOLEAN, n \in counts, mw \in workers :
           pool_start_crawling(cap, missing, n, mw)
    \/ pool_stop_crawling
    \/ \E r \in Runs : pool_crawl_worker_init(r)
    \/ \E r \in Runs : pool_crawl_worker_executor(r)
    \/ \E r \in Runs : pool_crawl_worker_submit(r)
    \/ \E r \in Runs : pool_crawl_worker_wait(r)
    \/ \E r \in Runs : pool_crawl_worker_finally(r)
    \/ \E r \in Runs, i \in Tasks : crawl_single_task_begin(r, i)
    \/ \E i \in Tasks, drvok \in BOOLEAN, out \in Outcomes :
           crawl_single_task_scrape(i, drvok, out)
    \/ \E i \in Tasks : crawl_single_task_count(i)
    \/ \E i \in Tasks : crawl_single_task_cur(i)
    \/ \E i \in Tasks : crawl_single_task_fin_r(i)
    \/ \E i \in Tasks : crawl_single_task_fin_w(i)
    \/ \E i \in Tasks : crawl_single_task_prog_r(i)
    \/ \E i \in Tasks : crawl_single_task_prog_w(i)

Next ==
    \/ NextUnified(MaxRuns, FALSE, 0..MaxTasks)
    \/ NextUi(MaxRuns, 0..MaxTasks)
    \/ NextPool(MaxRuns, 0..MaxTasks, 1..MaxWorkers)

Spec == Init /\ [][Next]_vars

\* The unified front-end under any request at any time.
InitOverlap ==
    /\ app = "unified"
    /\ script = 0
    /\ InitState
    /\ NoAux

NextOverlap == NextUnified(MaxRuns, TRUE, 0..MaxTasks)

SpecOverlap == InitOverlap /\ [][NextOverlap]_vars

\* The scenario of a pool run of ScenarioTasks tasks in which the scraper
\* raises on task ScenarioRaise and returns data on the others.
InitFive ==
    /\ app = "pool"
    /\ script = ScenarioRaise
    /\ InitState
    /\ NoAux

NextFive == NextPool(1, {ScenarioTasks}, 1..MaxWorkers)

SpecFive == InitFive /\ [][NextFive]_vars

\* One run of the unified front-end, never stopped, with status requests.
InitStatus ==
    /\ app = "unified"
    /\ script = 0
    /\ InitState
    /\ NoAux

NextStatus ==
    \/ \E n \in 0..MaxTasks : start_crawling(1, FALSE, n)
    \/ \E r \in Runs : redbus_worker_init(r)
    \/ \E r \in Runs, dbok \in BOOLEAN, drvok \in BOOLEAN : redbus_worker_setup(r, dbok, drvok)
    \/ \E r \in Runs : redbus_worker_loop(r)
    \/ \E r \in Runs, out \in Outcomes, dbout \in DbOutcomes : redbus_worker_scrape(r, out, dbout)
    \/ \E r \in Runs : redbus_worker_fin(r)
    \/ \E r \in Runs : redbus_worker_prog(r)
    \/ \E r \in Runs : redbus_worker_finally(r)
    \/ api_v2_crawl_status_1
    \/ api_v2_crawl_status_2
    \/ api_v2_crawl_status_3

SpecStatus == InitStatus /\ [][NextStatus]_vars

\* The unified front-end with worker threads that the scheduler lets run:
\* a thread that can take a step eventually takes one.
redbus_worker(r) ==
    \/ redbus_worker_init(r)
    \/ \E dbok \in BOOLEAN, drvok \in BOOLEAN : redbus_worker_setup(r, dbok, drvok)
    \/ redbus_worker_loop(r)
    \/ \E out \in Outcomes, dbout \in DbOutcomes : redbus_worker_scrape(r, out, dbout)
    \/ redbus_worker_fin(r)
    \/ redbus_worker_prog(r)
    \/ redbus_worker_finally(r)

InitFair ==
    /\ app = "unified"
    /\ script = 0
    /\ InitState
    /\ NoAux

NextFair == NextUnified(MaxRuns, FALSE, 0..MaxTasks)

SpecFair ==
    /\ InitFair
    /\ [][NextFair]_vars
    /\ \A r \in 1..MaxRuns : WF_vars(r \in Runs /\ redbus_worker(r))

\* Both redbus front-ends with threads that the scheduler lets run and
\* scraper and persistence calls that return or raise: a worker thread, and a
\* pool thread executing a call, that can take a step eventually takes one.
crawl_worker(r) ==
    \/ pool_crawl_worker_init(r)
    \/ pool_crawl_worker_executor(r)
    \/ pool_crawl_worker_submit(r)
    \/ pool_crawl_worker_wait(r)
    \/ pool_crawl_worker_finally(r)

crawl_single_task(i) ==
    \/ \E r \in Runs : crawl_single_task_begin(r, i)
    \/ \E drvok \in BOOLEAN, out \in Outcomes : crawl_single_task_scrape(i, drvok, out)
    \/ crawl_single_task_count(i)
    \/ crawl_single_task_cur(i)
    \/ crawl_single_task_fin_r(i)
    \/ crawl_single_task_fin_w(i)
    \/ crawl_single_task_prog_r(i)
    \/ crawl_single_task_prog_w(i)

\* The unified front-end takes up to two start requests of one task each
\* at any time (also after a stop request, while the stopped run's task
\* executes); the pool has one or two threads.
InitTerminates ==
    /\ app \in {"unified", "pool"}
    /\ script = 0
    /\ InitState
    /\ NoAux

NextTerminates ==
    \/ NextUnified(2, TRUE, {1})
    \/ NextPool(1, 0..MaxTasks, 1..2)

SpecTerminates ==
    /\ InitTerminates
    /\ [][NextTerminates]_vars
    /\ \A r \in 1..MaxRuns : WF_vars(r \in Runs /\ redbus_worker(r))
    /\ \A r \in 1..MaxRuns : WF_vars(r \in Runs /\ crawl_worker(r))
    /\ \A i \in 1..MaxTasks : WF_vars(i \in Tasks /\ crawl_single_task(i))

\* One run of the unified front-end of up to MaxTotal tasks, each of which
\* returns data; no database, no stop request.
InitProgress ==
    /\ app = "unified"
    /\ script = 0
    /\ InitState
    /\ NoAux

NextProgress ==
    \/ \E n \in 0..MaxTotal : start_crawling(1, FALSE, n)
    \/ \E r \in Runs : redbus_worker_init(r)
    \/ \E r \in Runs : redbus_worker_setup(r, FALSE, TRUE)
    \/ \E r \in Runs : redbus_worker_loop(r)
    \/ \E r \in Runs : redbus_worker_scrape(r, "data", "none")
    \/ \E r \in Runs : redbus_worker_fin(r)
    \/ \E r \in Runs : redbus_worker_prog(r)
    \/ \E r \in Runs : redbus_worker_finally(r)

SpecProgress == InitProgress /\ [][NextProgress]_vars

\* A route registry under any sequence of its operations.
InitReg ==
    /\ app = "unified"
    /\ script = 0
    /\ InitState
    /\ reg \in {NewRegistry("file"), NewRegistry("db")}
    /\ gen = NoGen
    /\ store = NoStore

NextReg ==
    \/ \E name \in Names : add_route(name)
    \/ \E name \in Names, inserted \in BOOLEAN : unified_add_route(name, inserted)
    \/ \E route_id \in Ids, url \in Templates : add_platform_url(route_id, url)
    \/ \E route_id \in Ids, url \in Templates : update_route_url(route_id, url)
    \/ \E route_id \in Ids : delete_platform_url(route_id)
    \/ \E route_id \in Ids \cup {<<"jkt", "_", "smg">>}, active \in BOOLEAN :
           update_route(route_id, active)
    \/ \E route_id \in Ids \cup {<<"jkt", "_", "smg">>} : delete_route(route_id)

SpecReg == InitReg /\ [][NextReg]_vars

\* Task generation over a registry as constructed, with the redbus template
\* of a route removed, with a template without [[YEAR]] stored, with a
\* route without template added, and with a route soft-deleted.
GenRegistries ==
    LET made == NewRegistry("file")
        jkt_smg == <<"jkt", "_", "smg">>
    IN  {made,
         RemoveUrl(made, jkt_smg),
         StoreUrl(made, jkt_smg, SubSeq(GoodTemplate, 1, 7)),
         AppendRoute(made, <<"Jakarta", "-", "Bandung">>),
         SetActive(made, jkt_smg, FALSE)}

InitGen ==
    /\ app = "unified"
    /\ script = 0
    /\ InitState
    /\ reg \in GenRegistries
    /\ gen = NoGen
    /\ store = NoStore

NextGen ==
    /\ gen.fn = "none"
    /\ \/ \E route_names \in SeqsUpTo(TaskNames, MaxNames), dates \in SeqsUpTo(Dates, MaxDates) :
             generate_redbus_tasks(route_names, dates)
       \/ \E route_names \in SeqsUpTo(TaskNames, MaxNames), dates \in SeqsUpTo(Dates, MaxDates),
             convert \in BOOLEAN :
             unified_generate_redbus_tasks(route_names, dates, convert)

SpecGen == InitGen /\ [][NextGen]_vars

\* Calls of format_url_for_date over the same registries.
NextFormat ==
    /\ gen.fn = "none"
    /\ \E route_id \in Ids, date_str \in DateStrings : format_url_for_date(route_id, date_str)

SpecFormat == InitGen /\ [][NextFormat]_vars

\* The bus_data table under insertions and migration runs.
InitDb ==
    /\ app = "unified"
    /\ script = 0
    /\ InitState
    /\ reg = NoReg("db")
    /\ gen = NoGen
    /\ store = NoStore

NextDb ==
    \/ \E route_date \in RouteDates, n \in 1..MaxRecords : insert_bulk_data(route_date, n)
    \/ migrate
    \/ next_day

SpecDb == InitDb /\ [][NextDb]_vars

\* The crawl_sessions table under the calls of its two methods.
NextSessions ==
    \/ \E route_date \in RouteDates : start_crawl_session(route_date)
    \/ \E session_id \in 1..MaxSessions, total_records \in 0..MaxRecords,
          status \in {"completed", "failed", "stopped"} :
          end_crawl_session(session_id, total_records, status)

SpecSessions == InitDb /\ [][NextSessions]_vars

\* The bus_data table under CSV imports.
NextImport ==
    \E route_date \in RouteDates, outcomes \in SeqsUpTo({"ok", "raise"}, MaxRecords),
       readable \in BOOLEAN :
        import_from_csv(route_date, outcomes, readable)

SpecImport == InitDb /\ [][NextImport]_vars

----------------------------------------------------------------------------
\* Properties.

\* The run the status reports on: the latest accepted start.
Last == Len(w)

\* C1: at no time are two worker threads, launched by two accepted start
\* requests, both still executing.
OneActiveRun ==
    Cardinality({r \in Runs : Live(r)}) <= 1

\* A step in which a task of run r begins executing after a stop request was
\* accepted during the run.
StartsTaskAfterStop(r) ==
    /\ w[r].stopReq
    /\ r \in DOMAIN w'
    /\ \/ w[r].pc = "loop" /\ w'[r].pc = "scrape"
       \/ /\ Live(r)
          /\ \E i \in Tasks : i \in DOMAIN pt' /\ pt[i].st = "queued" /\ pt'[i].st = "scrape"

\* C2: once a stop request was accepted during a run, no task of that run
\* that had not begun executing is started, in the sequential workers and in
\* the pool.
NoDispatchAfterStop ==
    [][\A r \in Runs : ~StartsTaskAfterStop(r)]_vars

\* The step in which the thread of run r leaves its finally block.
RunEnds(r) ==
    /\ r \in DOMAIN w'
    /\ w[r].pc = "finally"
    /\ w'[r].pc = "done"

\* C3: when a run that was neither stopped nor aborted ends,
\* completed_tasks equals total_tasks.
CompletedEqualsTotal ==
    [][\A r \in Runs :
          (/\ app \in {"unified", "pool"}
           /\ RunEnds(r)
           /\ ~w[r].stopReq
           /\ "fatal" \notin w[r].em)
          => completed_tasks' = total_tasks']_vars

\* C4: progress is 100 only when every task of the run has finished
\* (completed_tasks = total_tasks; in the traveloka front-end, which keeps no
\* completed_tasks, when the worker has finished its last task).
HundredOnlyWhenAllDone ==
    (Last > 0 /\ progress = 100)
    => IF app = "traveloka"
       THEN w[Last].idx = w[Last].n
       ELSE completed_tasks = total_tasks

\* A step of a start handler that answers a request received while
\* is_running holds.
StartWhileRunning ==
    /\ is_running
    /\ resp' # resp
    /\ resp'.op = "start"

NotIdleWhileExecuting ==
    ((\E r \in Runs : w[r].pc \in {"scrape", "fin", "prog"}) \/ Executing # {})
    => is_running

\* C7: a pool run of ScenarioTasks tasks that was not stopped, in which the
\* scraper raised on one task and returned data on the others, ends with
\* failed = 1, successful = ScenarioTasks - 1 and completed_tasks =
\* ScenarioTasks.
OneFailureOfFive ==
    (Last > 0 /\ w[Last].pc = "done" /\ ~w[Last].stopReq /\ script > 0)
    => /\ stats.failed = 1
       /\ stats.successful = ScenarioTasks - 1
       /\ completed_tasks = ScenarioTasks

\* The step of redbus_worker in which insert_bulk_data raises.
InsertRaises(r) ==
    /\ r \in DOMAIN w'
    /\ w[r].pc = "scrape"
    /\ w'[r].dbres = "raise"

DriverFailsSequential(r) ==
    /\ app \in {"unified", "traveloka"}
    /\ r \in DOMAIN w'
    /\ w[r].pc = "setup"
    /\ w'[r].pc = "finally"

\* The step of crawl_single_task in which the driver cannot be initialised.
DriverFailsPool(i) ==
    /\ i \in DOMAIN pt'
    /\ pt[i].st = "scrape"
    /\ pt'[i].st = "fd"

\* C9 (as the code has it): in the sequential workers a driver that cannot
\* be initialised is fatal: 'Fatal error' is logged, no task has executed
\* and none executes afterwards.  In the pool the failure belongs to the
\* one call: nothing fatal is logged, crawl_worker goes on, and the call is
\* counted as failed.
DriverFailure ==
    /\ [](\A r \in Runs :
            (app \in {"unified", "traveloka"} /\ "fatal" \in w[r].em)
            => (w[r].idx = 0 /\ w[r].pc \in {"finally", "done"}))
    /\ [][/\ (\A r \in Runs : DriverFailsSequential(r) =>
                 ("fatal" \in logs' /\ w[r].idx = 0 /\ stats' = stats))
           /\ (\A i \in Tasks : DriverFailsPool(i) =>
                 (logs' = logs /\ w' = w /\ is_running' = is_running))
           /\ (\A j \in Tasks : (pt[j].st = "fd" /\ j \in DOMAIN pt' /\ pt'[j].st = "cur") =>
                 (stats'.failed = pt[j].tmp + 1 /\ stats'.successful = stats.successful))]_vars

\* C9: in a pool run a call's driver could not be initialised, nothing
\* fatal was logged, and another call of the run is executing or queued.
PoolDriverFailureSeen ==
    \E i \in Tasks, j \in Tasks :
        /\ pt[i].st = "fd"
        /\ pt[j].st \in {"queued", "scrape"}
        /\ "fatal" \notin logs
        /\ w[Last].pc \in {"submit", "wait"}

\* C9 (as stated): in the pool too, the step in which a driver cannot be
\* initialised logs the fatal error.
PoolDriverFailureFatal ==
    [][\A i \in Tasks : DriverFailsPool(i) => "fatal" \in logs']_vars

\* C10: a run does not log both 'Crawling stopped by user' and 'All tasks
\* completed!'.
StoppedOrCompleted ==
    \A r \in Runs : ~({"stopped", "completed"} \subseteq w[r].em)

\* What every state of a run that no other run overlaps satisfies: progress
\* was computed from completed_tasks or from its value one task earlier, and
\* the counted tasks are the completed ones and at most one more.
Coherent(s) ==
    /\ \/ s.progress = Progress(s.completed_tasks, s.total_tasks)
       \/ s.completed_tasks >= 1
          /\ s.progress = Progress(s.completed_tasks - 1, s.total_tasks)
    /\ s.successful + s.failed - s.completed_tasks \in {0, 1}

\* The fields of crawling_state a status response reports.
Reported ==
    [is_running |-> is_running, progress |-> progress,
     completed_tasks |-> completed_tasks, total_tasks |-> total_tasks,
     successful |-> stats.successful, failed |-> stats.failed]

\* In SpecStatus every state of crawling_state is coherent.
StateCoherent == Coherent(Reported)

\* C11: the fields of one status response belong to one state of the run.
SnapshotCoherent ==
    snap.pc = "ready" => Coherent(snap)

\* The (route name, date) pairs of a request whose route is in the
\* registry with a redbus template and whose date is a calendar date, route
\* names in the outer loop, dates in the inner one.
RECURSIVE WantedPairs(_, _, _)
WantedPairs(rg, route_names, dates) ==
    IF Len(route_names) = 0 THEN <<>>
    ELSE LET wellformed == SelectSeq(dates, StrptimeOk)
             head == IF Skipped(rg, route_names[1]) THEN <<>>
                     ELSE [i \in 1..Len(wellformed) |-> <<route_names[1], wellformed[i]>>]
         IN  head \o WantedPairs(rg, Tail(route_names), dates)

GeneratedPairs == [i \in 1..Len(gen.tasks) |-> <<gen.tasks[i].route, gen.tasks[i].date>>]

Generators == {"formatter", "start", "v2"}

\* C12: a task generator returns exactly one task for each (route name,
\* date) pair whose route exists, has a redbus template and whose date is
\* well-formed, and nothing else, in the order of the caller's route names
\* and, within a route, of the caller's dates.
OneTaskPerValidPair ==
    gen.fn \in Generators => GeneratedPairs = WantedPairs(reg, gen.names, gen.dates)

\* The same of the generator of url_crawler_formatter.py alone.
FormatterOneTaskPerValidPair ==
    gen.fn = "formatter" => GeneratedPairs = WantedPairs(reg, gen.names, gen.dates)

\* How many (route, date) combinations of the request are excluded because
\* the route is unknown or has no redbus template.
ExcludedCombinations ==
    Cardinality({i \in 1..Len(gen.names) : Skipped(reg, gen.names[i])}) * Len(gen.dates)

\* C13: the number of warnings logged about unknown routes and routes
\* without template equals the number of (route, date) combinations
\* excluded for that reason.
OneWarningPerExcluded ==
    gen.fn \in Generators => gen.warnings = ExcludedCombinations

\* C14: every task of /api/start/redbus and /api/v2/crawl/start carries a
\* date string of the request that is a well-formed calendar date, and its
\* URL holds no placeholder; a malformed date of the request gives no task.
MalformedDatesSkipped ==
    gen.fn \in {"start", "v2"} =>
        \A i \in 1..Len(gen.tasks) :
            /\ gen.tasks[i].date \in Range(gen.dates)
            /\ StrptimeOk(gen.tasks[i].date)
            /\ \A j \in 1..Len(gen.tasks[i].url) : gen.tasks[i].url[j].k # "ph"

\* The same without the conversion of /api/start/redbus: no task carries a
\* date that is not of the request.
NoDateCoerced ==
    gen.fn = "start" =>
        \A i \in 1..Len(gen.tasks) : gen.tasks[i].date \in Range(gen.dates)

\* Reading a month back from its short name, as strptime("%b") does.
MonthOf(t) ==
    CASE t = "Jan" -> 1 [] t = "Feb" -> 2 [] t = "Mar" -> 3 [] t = "Apr" -> 4
      [] t = "May" -> 5 [] t = "Jun" -> 6 [] t = "Jul" -> 7 [] t = "Aug" -> 8
      [] t = "Sep" -> 9 [] t = "Oct" -> 10 [] t = "Nov" -> 11 [] t = "Dec" -> 12
      [] OTHER -> 0

\* The call of format_url_for_date that gen records, its template and the
\* date its date string names.
Formatted == gen.tasks[1]
FormattedTemplate == get_platform_url(reg, Formatted.route)
FormattedDate == Strptime(Formatted.date)

\* The piece of the formatted URL at the first place where the template
\* has the placeholder.
PieceAt(ph) ==
    Formatted.url[CHOOSE i \in 1..Len(FormattedTemplate) :
                      /\ FormattedTemplate[i] = Ph(ph)
                      /\ \A j \in 1..(i - 1) : FormattedTemplate[j] # Ph(ph)]

\* C20: for a route with a redbus template and a well-formed calendar date,
\* the formatted URL is the template with the day of the date at every
\* [[DAY]], its month at every [[MONTH]] and its year at every [[YEAR]] and
\* every other piece as it was; and reading the three components back
\* from the URL of a template that has the three placeholders gives the
\* date.
UrlRoundTrip ==
    (gen.fn = "format" /\ FormattedTemplate # <<>> /\ StrptimeOk(Formatted.date)) =>
        /\ Len(Formatted.url) = Len(FormattedTemplate)
        /\ \A i \in 1..Len(FormattedTemplate) :
              LET t == FormattedTemplate[i]
                  u == Formatted.url[i]
              IN  CASE t = Ph("DAY") ->
                         u.k = "num" /\ IsDigits(u.n) /\ Len(u.n) = 2
                                     /\ Val(u.n) = FormattedDate.day
                    [] t = Ph("MONTH") ->
                         u.k = "word" /\ MonthOf(u.s) = FormattedDate.month
                    [] t = Ph("YEAR") ->
                         u.k = "num" /\ IsDigits(u.n) /\ Val(u.n) = FormattedDate.year
                    [] OTHER -> u = t
        /\ (\A ph \in {"DAY", "MONTH", "YEAR"} : Ph(ph) \in Range(FormattedTemplate)) =>
              [year |-> Val(PieceAt("YEAR").n), month |-> MonthOf(PieceAt("MONTH").s),
               day |-> Val(PieceAt("DAY").n)] = FormattedDate

\* "2024-6-5", a date with a day and a month of one digit, is formatted
\* for a template with the three placeholders.
UrlRoundTripSeen ==
    /\ gen.fn = "format"
    /\ validate_url_format(FormattedTemplate)
    /\ Formatted.date = <<<<2,0,2,4>>, <<6>>, <<5>>>>
    /\ PieceAt("DAY").n = <<0, 5>>
    /\ PieceAt("MONTH").s = "Jun"

\* The ids of the routes the registry holds, in the file and in the table.
HeldIds(rg) ==
    {rg.master[i].id : i \in 1..Len(rg.master)} \cup Range(rg.dbids)

\* A step of add_route that returns a route id, and the id it returns.
RouteAdded == reg'.res = "added" /\ reg' # reg
AddedId ==
    IF reg'.master # reg.master THEN reg'.master[Len(reg'.master)].id
    ELSE reg'.dbids[Len(reg'.dbids)]

\* C17: add_route returns a route id only if the id derived from the name
\* is not yet in the registry; otherwise it fails with the duplicate error
\* and leaves the registry as it was.  File-backed and database-backed.
DuplicateAddRejected ==
    [][RouteAdded => AddedId \notin HeldIds(reg)]_vars

\* The same of the registry kept in the JSON file alone.
FileDuplicateAddRejected ==
    [][(RouteAdded /\ reg.mode = "file") => AddedId \notin HeldIds(reg)]_vars

\* C18: after any sequence of registry operations every stored redbus
\* template holds [[DAY]], [[MONTH]] and [[YEAR]] and starts with a URL
\* scheme; a template failing this is rejected and not stored.
StoredTemplatesValid ==
    \A e \in reg.urls : validate_url_format(e.url)

\* The same of a registry changed through /api/routes/<route_id>/urls/
\* <platform> of routes_web_api.py alone.
EndpointStoresValid ==
    [][\A route_id \in Ids, url \in Templates :
          update_route_url(route_id, url) =>
              \A e \in reg'.urls \ reg.urls : validate_url_format(e.url)]_vars

\* Two rows of the same route, route date and calendar capture day.
SameKey(a, b) == a.route_date = b.route_date /\ a.day = b.day

\* C15: once the table has the column, the rows of one (route, route
\* date, calendar capture day) have crawl_sequence values that increase
\* strictly in capture order and begin at 1, each day anew.
SequenceIncreasesFromOne ==
    store.crawl_sequence =>
        \A i \in 1..Len(store.bus_data) :
            LET row == store.bus_data[i]
                earlier == {j \in 1..Len(store.bus_data) :
                               /\ SameKey(store.bus_data[j], row)
                               /\ store.bus_data[j].crawl_timestamp < row.crawl_timestamp}
            IN  /\ earlier = {} => row.crawl_sequence = 1
                /\ \A j \in earlier : store.bus_data[j].crawl_sequence < row.crawl_sequence

\* The same right after a migration run.
MigrationNumbersFromOne ==
    [][migrate => SequenceIncreasesFromOne']_vars

\* C16: every row carries 1 plus the number of earlier crawl attempts of
\* its (route, route date, calendar day), so the rows of one attempt carry
\* the same crawl_sequence.
SequenceCountsAttempts ==
    store.crawl_sequence =>
        \A i \in 1..Len(store.bus_data) :
            LET row == store.bus_data[i]
            IN  row.crawl_sequence =
                    1 + Cardinality({store.bus_data[j].attempt : j \in
                            {j \in 1..Len(store.bus_data) :
                                /\ SameKey(store.bus_data[j], row)
                                /\ store.bus_data[j].attempt < row.attempt}})

\* A step of a start handler that launches a thread for zero tasks.
ZeroTaskRunStarts ==
    /\ Len(w') = Len(w) + 1
    /\ w'[Len(w')].n = 0

ProgressIsExactFloor ==
    \A r \in Runs :
        (w[r].pc = "loop" /\ w[r].idx > 0) =>
            progress = IF total_tasks = 0 THEN 0
                       ELSE (100 * completed_tasks) \div total_tasks

\* The calls of crawl_single_task that are between their append to
\* current_tasks and their removal from it.
Listed == {i \in Tasks : pt[i].st \in {"scrape", "s", "f", "fd", "cur"}}

\* C22: in the multi-worker run current_tasks holds exactly one entry for
\* each executing task and none for a finished one, at most max_workers
\* entries, and no two executing tasks carry the same worker id.
CurrentTasksExact ==
    app = "pool" =>
        /\ \A i \in Tasks :
              i \in Listed <=> [task |-> i, worker_id |-> pt[i].wid] \in current_tasks
        /\ \A t \in current_tasks : t.task \in Listed
        /\ \A r \in Runs : Live(r) => Cardinality(current_tasks) <= w[r].mw
        /\ \A i \in Listed, j \in Listed : i # j => pt[i].wid # pt[j].wid

\* The part of it about worker ids alone.
WorkerIdsDistinct ==
    app = "pool" => \A i \in Listed, j \in Listed : i # j => pt[i].wid # pt[j].wid

\* C23: a session record with status running exists when a task of a
\* worker with a database begins, and when the run ends the crawl_sessions
\* table holds one closed record for each task the worker executed.
SessionPerTask ==
    [][\A r \in Runs :
          /\ (w[r].db /\ w[r].pc = "loop" /\ w'[r].pc = "scrape") =>
                \E k \in 1..Len(store'.crawl_sessions) :
                    store'.crawl_sessions[k].status = "running"
          /\ (w[r].db /\ RunEnds(r)) =>
                /\ Len(store'.crawl_sessions) = w[r].idx
                /\ \A k \in 1..Len(store'.crawl_sessions) :
                      store'.crawl_sessions[k].status # "running"]_vars

\* C24: in every reachable state, under any sequence of start and stop
\* requests, completed_tasks <= total_tasks and 0 <= progress <= 100.
CountersBounded ==
    /\ completed_tasks <= total_tasks
    /\ progress \in 0..100

\* Whether a task is between its start and the end of its bookkeeping.
MidExecution ==
    \/ \E r \in Runs : w[r].pc \in {"scrape", "fin", "prog"}
    \/ Executing # {}

\* C25: whenever no task is mid-execution, stats.successful + stats.failed
\* equals completed_tasks, for the sequential worker and for the pool.
CountsAgree ==
    (app \in {"unified", "pool"} /\ ~MidExecution) =>
        stats.successful + stats.failed = completed_tasks

\* The same of the sequential worker alone.
SequentialCountsAgree ==
    (app = "unified" /\ ~MidExecution) =>
        stats.successful + stats.failed = completed_tasks

\* C26: every accepted start request leads to the end of its run, where
\* is_running is false, end_time is recorded and current_tasks is empty,
\* whether the run completes, is stopped or hits a fatal error; and
\* is_running becomes true only in the first statement of a thread that an
\* accepted start request launched.
Terminated ==
    /\ ~is_running
    /\ stats.end_time
    /\ current_tasks = {}

RunsOnlyAfterStart ==
    (~is_running /\ is_running') =>
        \E r \in Runs : w[r].pc = "init" /\ w'[r].pc # "init"

EveryStartTerminates ==
    /\ \A r \in 1..MaxRuns :
           (r \in Runs /\ w[r].pc = "init") ~>
               (r \in Runs /\ w[r].pc = "done" /\ Terminated)
    /\ [][RunsOnlyAfterStart]_vars

\* A run that a stop request reached has ended, and so has one that hit a
\* fatal error.
StoppedRunEnded ==
    /\ Terminated
    /\ \E r \in Runs : w[r].pc = "done" /\ w[r].stopReq /\ "fatal" \in w[r].em

\* A start request is answered with an error.
StartAnsweredWithError ==
    /\ resp' # resp
    /\ resp'.op = "start"
    /\ resp'.status \in {"already_running", "missing", "no_tasks"}

\* C27: a start request that is answered with an error (already running,
\* routes or dates missing, no valid task generated) launches no thread and
\* leaves stats, logs, progress, completed_tasks and total_tasks as they were.
ErrorStartChangesNothing ==
    [][StartAnsweredWithError => UNCHANGED <<state, w, pt, executor>>]_vars

\* C28: after add_route has returned a route id, get_route_by_id of that id
\* returns the route and get_route_by_name of its name returns that same
\* route (which is the route task generation then looks up), in the
\* file-backed and in the database-backed mode.
ReadYourWrites ==
    [][RouteAdded =>
          \E i \in get_route_by_id(reg', AddedId) :
              get_route_by_name(reg', reg'.master[i].name) = i]_vars

\* C29: task generation returns no task for a route that is soft-deleted
\* (its active flag is false), whatever templates it has.
NoTaskForDeletedRoute ==
    gen.fn \in Generators =>
        \A k \in 1..Len(gen.tasks) :
            reg.master[get_route_by_name(reg, gen.tasks[k].route)].active

\* C30: the statistics import_from_csv returns agree with what was stored:
\* 'inserted' is the number of rows the call added to bus_data, inserted +
\* errors is the number of rows of the CSV, and a call that reports
\* inserted = 0 added no row.
ImportStatsAgree ==
    store.imported.called =>
        /\ store.imported.inserted = store.imported.added
        /\ store.imported.inserted + store.imported.errors = store.imported.csv_rows
        /\ store.imported.inserted = 0 => store.imported.added = 0

====
